---- MODULE Spec2Model ----
(***************************************************************************)
(* Model of the replay parser (src/src/replays/parser.py), the batch       *)
(* driver (src/src/__init__.py) and the replay database                    *)
(* (src/src/replays/database.py).                                          *)
(*                                                                         *)
(* A file is a sequence of bytes (0..255) with a read cursor.  A Python    *)
(* str is a sequence of one-character strings.  A call that can raise      *)
(* returns a record whose field err names the exception ("" = no           *)
(* exception).                                                             *)
(***************************************************************************)
EXTENDS Integers, Sequences, FiniteSets, TLC

VARIABLES
    file,        \* the bytes of the open file (BinaryIO)
    pos,         \* its read cursor
    pc,          \* the statement Replay._parse / the driver is at
    replay,      \* the attributes of the Replay object set so far
    error,       \* the exception that ended the call, "" if none
    given,       \* the input the file was built from (not read by the program)
    raw,         \* the argument of ReplaySlot.parse
    slot,        \* the result of ReplaySlot.parse
    todo,        \* the paths the driver loop has still to visit
    connection,  \* the sqlite connection: committed and pending rows
    failing      \* the paths written to failing.txt

vars == <<file, pos, pc, replay, error, given, raw, slot, todo, connection,
          failing>>

(***************************************************************************)
(* Exceptions                                                              *)
(***************************************************************************)
NoError == ""
StructError == "struct.error"
UnicodeDecodeError == "UnicodeDecodeError"
ValueError == "ValueError"
IndexError == "IndexError"
InvalidSlotType == "ReplayParserException: invalid replay slot type"
InvalidSlotDifficulty == "ReplayParserException: invalid replay slot difficulty"
UnexpectedMetadataKey == "ReplayParserException: Unexpected replay metadata key"
NotImplementedGameType == "ReplayParserException: parsing for game type not implemented yet"
UnrecognizedReplayType == "ReplayParserException: Unrecognized replay type"

(***************************************************************************)
(* Python str and int                                                      *)
(***************************************************************************)
\* ord() of the characters the inputs are built from
Ord ==
    [c \in {"0","1","2","3","4","5","6","7","8","9"} |->
        CASE c = "0" -> 48 [] c = "1" -> 49 [] c = "2" -> 50 [] c = "3" -> 51
          [] c = "4" -> 52 [] c = "5" -> 53 [] c = "6" -> 54 [] c = "7" -> 55
          [] c = "8" -> 56 [] c = "9" -> 57]
    @@ ("A" :> 65 @@ "B" :> 66 @@ "C" :> 67 @@ "D" :> 68 @@ "E" :> 69
    @@ "F" :> 70 @@ "G" :> 71 @@ "H" :> 72 @@ "L" :> 76 @@ "M" :> 77
    @@ "N" :> 78 @@ "O" :> 79 @@ "P" :> 80 @@ "Q" :> 81 @@ "R" :> 82
    @@ "S" :> 83 @@ "U" :> 85 @@ "X" :> 88 @@ "Z" :> 90
    @@ "a" :> 97 @@ "b" :> 98 @@ "f" :> 102 @@ "m" :> 109 @@ "p" :> 112
    @@ "x" :> 120 @@ "y" :> 121 @@ "z" :> 122
    @@ "," :> 44 @@ "-" :> 45 @@ "." :> 46 @@ ":" :> 58 @@ ";" :> 59
    @@ "=" :> 61)

Chars == DOMAIN Ord

\* s[i] with Python's zero-based index; the caller checks the range
At(s, i) == s[i + 1]

\* s[i:]
From(s, i) == SubSeq(s, i + 1, Len(s))

\* s[:i]
Upto(s, i) == SubSeq(s, 1, i)

RECURSIVE SplitFrom(_, _, _, _, _)
SplitFrom(s, sep, i, cur, acc) ==
    IF i > Len(s) THEN Append(acc, cur)
    ELSE IF s[i] = sep THEN SplitFrom(s, sep, i + 1, <<>>, Append(acc, cur))
    ELSE SplitFrom(s, sep, i + 1, Append(cur, s[i]), acc)

\* s.split(sep): every piece, the empty ones included
Split(s, sep) == SplitFrom(s, sep, 1, <<>>, <<>>)

\* [p for p in pieces if p]
NonEmpty(pieces) == SelectSeq(pieces, LAMBDA p : p # <<>>)

\* s.split(sep, maxsplit=1)
Split1(s, sep) ==
    IF \E i \in 1..Len(s) : s[i] = sep
    THEN LET i == CHOOSE k \in 1..Len(s) :
                      s[k] = sep /\ \A j \in 1..(k - 1) : s[j] # sep
         IN  <<SubSeq(s, 1, i - 1), SubSeq(s, i + 1, Len(s))>>
    ELSE <<s>>

DigitValue(c) ==
    CASE c \in {"0","1","2","3","4","5","6","7","8","9"} -> Ord[c] - Ord["0"]
      [] c \in {"A","B","C","D","E","F"} -> Ord[c] - Ord["A"] + 10
      [] c \in {"a","b","f"} -> Ord[c] - Ord["a"] + 10
      [] OTHER -> 99

IsDigit(c, base) == DigitValue(c) < base

RECURSIVE DigitsValue(_, _, _)
DigitsValue(s, base, acc) ==
    IF s = <<>> THEN acc
    ELSE DigitsValue(Tail(s), base, acc * base + DigitValue(Head(s)))

\* int(s, base): an optional sign, for base 16 an optional 0x / 0X prefix, then
\* one or more digits of the base; anything else raises ValueError.
\* (Whitespace and underscores are not in Chars.)
IsSigned(s) == s # <<>> /\ Head(s) = "-"

Unsigned(s) == IF IsSigned(s) THEN Tail(s) ELSE s

Unprefixed(body, base) ==
    IF base = 16 /\ Len(body) >= 2 /\ body[1] = "0" /\ body[2] \in {"x", "X"}
    THEN From(body, 2) ELSE body

IntOfDigits(negative, digits, base) ==
    IF digits # <<>> /\ \A i \in 1..Len(digits) : IsDigit(digits[i], base)
    THEN [err |-> NoError,
          val |-> IF negative THEN 0 - DigitsValue(digits, base, 0)
                  ELSE DigitsValue(digits, base, 0)]
    ELSE [err |-> ValueError, val |-> 0]

PyInt(s, base) == IntOfDigits(IsSigned(s), Unprefixed(Unsigned(s), base), base)

(***************************************************************************)
(* ReplaySlot                                                              *)
(***************************************************************************)
EMPTY == "EMPTY"
HUMAN == "HUMAN"
COMPUTER == "COMPUTER"
EASY == "EASY"
MEDIUM == "MEDIUM"
HARD == "HARD"
None == "None"

\* ReplaySlotType.value
SlotTypeValue(t) == CASE t = EMPTY -> 0 [] t = HUMAN -> 1 [] t = COMPUTER -> 2

\* ReplaySlot(slot_type): the dataclass defaults
ReplaySlot(slot_type) ==
    [slot_type |-> slot_type, human_name |-> <<>>, user_id |-> 0,
     computer_difficulty |-> None, color |-> 0, faction |-> 0,
     star_position |-> 0, team |-> 0]

_read_slot_type(r) ==
    LET c == At(r, 0)
    IN  IF r = <<>> THEN [err |-> IndexError, val |-> None]
        ELSE IF c = "H" THEN [err |-> NoError, val |-> HUMAN]
        ELSE IF c = "C" THEN [err |-> NoError, val |-> COMPUTER]
        ELSE IF c \in {"X", "O"} THEN [err |-> NoError, val |-> EMPTY]
        ELSE [err |-> InvalidSlotType, val |-> None]

_read_slot_difficulty(r) ==
    LET c == At(r, 1)
    IN  IF Len(r) < 2 THEN [err |-> IndexError, val |-> None]
        ELSE IF c = "E" THEN [err |-> NoError, val |-> EASY]
        ELSE IF c = "M" THEN [err |-> NoError, val |-> EASY]
        ELSE IF c = "H" THEN [err |-> NoError, val |-> EASY]
        ELSE [err |-> InvalidSlotDifficulty, val |-> None]

\* int(slot_details[i], base): IndexError when the list is too short
DetailInt(slot_details, i, base) ==
    IF i >= Len(slot_details) THEN [err |-> IndexError, val |-> 0]
    ELSE PyInt(At(slot_details, i), base)

\* The first exception of a sequence of calls made in order
FirstError(results) ==
    IF \E i \in 1..Len(results) : results[i].err # NoError
    THEN results[CHOOSE i \in 1..Len(results) :
                    /\ results[i].err # NoError
                    /\ \A j \in 1..(i - 1) : results[j].err = NoError].err
    ELSE NoError

\* a HUMAN branch that takes color, faction, position and team one field early
HumanDetails_one_early(slot_details) ==
    <<DetailInt(slot_details, 1, 16), DetailInt(slot_details, 3, 10),
      DetailInt(slot_details, 4, 10), DetailInt(slot_details, 5, 10),
      DetailInt(slot_details, 6, 10)>>

HumanDetails(slot_details) ==
    <<DetailInt(slot_details, 1, 16), DetailInt(slot_details, 4, 10),
      DetailInt(slot_details, 5, 10), DetailInt(slot_details, 6, 10),
      DetailInt(slot_details, 7, 10)>>

\* a COMPUTER branch that counts the fields from the marker field
ComputerDetails_from_marker(slot_details) ==
    <<DetailInt(slot_details, 0, 10), DetailInt(slot_details, 1, 10),
      DetailInt(slot_details, 2, 10), DetailInt(slot_details, 3, 10)>>

ComputerDetails(slot_details) ==
    <<DetailInt(slot_details, 1, 10), DetailInt(slot_details, 2, 10),
      DetailInt(slot_details, 3, 10), DetailInt(slot_details, 4, 10)>>

\* the HUMAN branch of ReplaySlot.parse; h holds the five int() calls in order
HumanSlot(slot_details, h) ==
    IF FirstError(h) # NoError THEN [err |-> FirstError(h), val |-> None]
    ELSE [err |-> NoError,
          val |-> [ReplaySlot(HUMAN) EXCEPT
                     !.human_name = From(At(slot_details, 0), 1),
                     !.user_id = h[1].val, !.color = h[2].val,
                     !.faction = h[3].val, !.star_position = h[4].val,
                     !.team = h[5].val]]

\* the COMPUTER branch of ReplaySlot.parse; c holds the four int() calls in order
ComputerSlot(difficulty, c) ==
    IF difficulty.err # NoError THEN [err |-> difficulty.err, val |-> None]
    ELSE IF FirstError(c) # NoError THEN [err |-> FirstError(c), val |-> None]
    ELSE [err |-> NoError,
          val |-> [ReplaySlot(COMPUTER) EXCEPT
                     !.computer_difficulty = difficulty.val,
                     !.color = c[1].val, !.faction = c[2].val,
                     !.star_position = c[3].val, !.team = c[4].val]]

SlotOfType(r, slot_type, slot_details) ==
    IF slot_type.err # NoError THEN [err |-> slot_type.err, val |-> None]
    ELSE IF slot_type.val = HUMAN
    THEN HumanSlot(slot_details, HumanDetails(slot_details))
    ELSE IF slot_type.val = COMPUTER
    THEN ComputerSlot(_read_slot_difficulty(r), ComputerDetails(slot_details))
    ELSE [err |-> NoError, val |-> ReplaySlot(EMPTY)]

\* ReplaySlot.parse(raw)
ReplaySlot_parse(r) == SlotOfType(r, _read_slot_type(r), NonEmpty(Split(r, ",")))

(***************************************************************************)
(* Primitive readers                                                       *)
(***************************************************************************)
Min(a, b) == IF a < b THEN a ELSE b

\* file.read(n) at cursor p: the bytes returned (fewer than n at end of file)
Read(f, p, n) == SubSeq(f, p + 1, Min(p + n, Len(f)))

\* the cursor after file.read(n)
Tell(f, p, n) == Min(p + n, Len(f))

\* struct.unpack("<H", b)[0]
UnpackH(b) ==
    IF Len(b) # 2 THEN [err |-> StructError, val |-> 0]
    ELSE [err |-> NoError, val |-> b[1] + 256 * b[2]]

\* struct.unpack("<I", b)[0]
UnpackI(b) ==
    IF Len(b) # 4 THEN [err |-> StructError, val |-> 0]
    ELSE [err |-> NoError,
          val |-> b[1] + 256 * b[2] + 65536 * b[3] + 16777216 * b[4]]

read_uint16(f, p) ==
    [err |-> UnpackH(Read(f, p, 2)).err, val |-> UnpackH(Read(f, p, 2)).val,
     pos |-> Tell(f, p, 2)]

\* a read_uint32 that takes the bytes there are (int.from_bytes) instead of
\* unpacking exactly four
read_uint32_from_bytes(f, p) ==
    [err |-> NoError,
     val |-> UnpackI(Read(f, p, 4) \o [i \in 1..(4 - Len(Read(f, p, 4))) |-> 0]).val,
     pos |-> Tell(f, p, 4)]

read_uint32(f, p) ==
    [err |-> UnpackI(Read(f, p, 4)).err, val |-> UnpackI(Read(f, p, 4)).val,
     pos |-> Tell(f, p, 4)]

\* bytes.decode(): UTF-8.  A byte below 128 is the character with that code;
\* the only other byte of the inputs is 255, which no UTF-8 sequence holds.
Chr(b) ==
    IF \E c \in Chars : Ord[c] = b THEN CHOOSE c \in Chars : Ord[c] = b
    ELSE "(another character)"

Decode(b) ==
    IF \E i \in 1..Len(b) : b[i] >= 128
    THEN [err |-> UnicodeDecodeError, val |-> <<>>]
    ELSE [err |-> NoError, val |-> [i \in 1..Len(b) |-> Chr(b[i])]]

\* str.encode() of a str over Chars
Bytes(s) == [i \in 1..Len(s) |-> Ord[s[i]]]

\* the loop of read_null_terminated_string: one byte at a time until a zero
\* byte (consumed, not kept) or the end of the file
RECURSIVE ReadUntilNul(_, _, _)
ReadUntilNul(f, p, chars) ==
    LET c == Read(f, p, 1)
    IN  IF c = <<>> THEN [val |-> chars, pos |-> p]
        ELSE IF c = <<0>> THEN [val |-> chars, pos |-> p + 1]
        ELSE ReadUntilNul(f, p + 1, chars \o c)

read_null_terminated_string(f, p) ==
    LET r == ReadUntilNul(f, p, <<>>)
    IN  [err |-> Decode(r.val).err, val |-> Decode(r.val).val, pos |-> r.pos]

\* the loop of read_null_terminated_utf16_string: two bytes at a time until
\* the unit 00 00 (consumed, not kept) or the end of the file; a last single
\* byte is kept
RECURSIVE ReadUntilNul16(_, _, _)
ReadUntilNul16(f, p, chars) ==
    LET c == Read(f, p, 2)
    IN  IF c = <<>> THEN [val |-> chars, pos |-> p]
        ELSE IF c = <<0, 0>> THEN [val |-> chars, pos |-> p + 2]
        ELSE ReadUntilNul16(f, Tell(f, p, 2), chars \o c)

IsHighSurrogate(u) == 55296 <= u /\ u <= 56319
IsLowSurrogate(u) == 56320 <= u /\ u <= 57343

\* the 16-bit units of an even number of bytes, in the given byte order
Units(b, little) ==
    [i \in 1..(Len(b) \div 2) |->
        IF little THEN b[2 * i - 1] + 256 * b[2 * i]
        ELSE 256 * b[2 * i - 1] + b[2 * i]]

\* the code points of a sequence of UTF-16 units; a surrogate without its
\* partner raises UnicodeDecodeError
RECURSIVE CodePoints(_, _)
CodePoints(u, acc) ==
    IF u = <<>> THEN [err |-> NoError, val |-> acc]
    ELSE IF IsHighSurrogate(u[1]) THEN
        IF Len(u) >= 2 /\ IsLowSurrogate(u[2])
        THEN CodePoints(SubSeq(u, 3, Len(u)),
                 Append(acc, 65536 + (u[1] - 55296) * 1024 + (u[2] - 56320)))
        ELSE [err |-> UnicodeDecodeError, val |-> <<>>]
    ELSE IF IsLowSurrogate(u[1]) THEN [err |-> UnicodeDecodeError, val |-> <<>>]
    ELSE CodePoints(Tail(u), Append(acc, u[1]))

\* bytes.decode(encoding="utf_16"): a leading FF FE or FE FF selects the byte
\* order and is dropped; without one the host's order is used (little-endian
\* here); an odd number of bytes raises UnicodeDecodeError
DecodeUtf16(b) ==
    LET bom    == Len(b) >= 2 /\ SubSeq(b, 1, 2) \in {<<255, 254>>, <<254, 255>>}
        little == ~(Len(b) >= 2 /\ SubSeq(b, 1, 2) = <<254, 255>>)
        body   == IF bom THEN SubSeq(b, 3, Len(b)) ELSE b
    IN  IF Len(body) % 2 # 0
        THEN [err |-> UnicodeDecodeError, val |-> <<>>]
        ELSE CodePoints(Units(body, little), <<>>)

read_null_terminated_utf16_string(f, p) ==
    LET r == ReadUntilNul16(f, p, <<>>)
    IN  [err |-> DecodeUtf16(r.val).err, val |-> DecodeUtf16(r.val).val,
         pos |-> r.pos]

(***************************************************************************)
(* ReplayMetadata                                                          *)
(***************************************************************************)
\* ReplayMetadata(): the dataclass defaults
ReplayMetadata ==
    [mapfile_unknown_int |-> 0, mapfile |-> <<>>, map_crc |-> 0, map_size |-> 0,
     SD |-> 0, C |-> 0, SR |-> 0, starting_credits |-> 0, O |-> 0, slots |-> <<>>]

\* the loop over value that counts the leading characters in "0".."9"
RECURSIVE IntEnd(_, _)
IntEnd(value, int_end) ==
    IF int_end < Len(value)
       /\ Ord["9"] >= Ord[At(value, int_end)] /\ Ord[At(value, int_end)] >= Ord["0"]
    THEN IntEnd(value, int_end + 1)
    ELSE int_end

\* the loop over value.split(":") of the S key: each non-empty piece is parsed
\* and appended; the first exception ends the loop
RECURSIVE ParseSlots(_, _)
\* a loop that puts each slot before those already parsed
InsertSlotFirst(pieces, slots, s) ==
    IF s.err # NoError THEN [err |-> s.err, val |-> slots]
    ELSE ParseSlots(Tail(pieces), <<s.val>> \o slots)

AppendSlot(pieces, slots, s) ==
    IF s.err # NoError THEN [err |-> s.err, val |-> slots]
    ELSE ParseSlots(Tail(pieces), Append(slots, s.val))

ParseSlots(pieces, slots) ==
    IF pieces = <<>> THEN [err |-> NoError, val |-> slots]
    ELSE IF Head(pieces) = <<>> THEN ParseSlots(Tail(pieces), slots)
    ELSE AppendSlot(pieces, slots, ReplaySlot_parse(Head(pieces)))

\* metadata.<field> = n, where n is the result of int(value, base)
SetInt(m, field, n) ==
    IF n.err # NoError THEN [err |-> n.err, val |-> m]
    ELSE [err |-> NoError, val |-> [m EXCEPT ![field] = n.val]]

\* the M key: the leading digits and the rest of the value
SetMapfile(m, value, int_end) ==
    SetInt([m EXCEPT !.mapfile = From(value, int_end)], "mapfile_unknown_int",
           PyInt(Upto(value, int_end), 10))

\* the S key
SetSlots(m, s) == [err |-> s.err, val |-> [m EXCEPT !.slots = s.val]]

\* a chain whose else branch skips the key instead of raising
Dispatch_skipping(m, key, value) ==
    IF key = <<"U", "S">> THEN [err |-> NoError, val |-> m]
    ELSE IF key = <<"M">> THEN SetMapfile(m, value, IntEnd(value, 0))
    ELSE IF key = <<"M", "C">> THEN SetInt(m, "map_crc", PyInt(value, 16))
    ELSE IF key = <<"M", "S">> THEN SetInt(m, "map_size", PyInt(value, 10))
    ELSE IF key = <<"S", "D">> THEN SetInt(m, "SD", PyInt(value, 10))
    ELSE IF key = <<"C">> THEN SetInt(m, "C", PyInt(value, 10))
    ELSE IF key = <<"S", "R">> THEN SetInt(m, "SR", PyInt(value, 10))
    ELSE IF key = <<"S", "C">> THEN SetInt(m, "starting_credits", PyInt(value, 10))
    ELSE IF key = <<"O">> THEN [err |-> NoError, val |-> [m EXCEPT !.O = value]]
    ELSE IF key = <<"S">> THEN SetSlots(m, ParseSlots(Split(value, ":"), m.slots))
    ELSE [err |-> NoError, val |-> m]

\* the if / elif chain on key
Dispatch(m, key, value) ==
    IF key = <<"U", "S">> THEN [err |-> NoError, val |-> m]
    ELSE IF key = <<"M">> THEN SetMapfile(m, value, IntEnd(value, 0))
    ELSE IF key = <<"M", "C">> THEN SetInt(m, "map_crc", PyInt(value, 16))
    ELSE IF key = <<"M", "S">> THEN SetInt(m, "map_size", PyInt(value, 10))
    ELSE IF key = <<"S", "D">> THEN SetInt(m, "SD", PyInt(value, 10))
    ELSE IF key = <<"C">> THEN SetInt(m, "C", PyInt(value, 10))
    ELSE IF key = <<"S", "R">> THEN SetInt(m, "SR", PyInt(value, 10))
    ELSE IF key = <<"S", "C">> THEN SetInt(m, "starting_credits", PyInt(value, 10))
    ELSE IF key = <<"O">> THEN [err |-> NoError, val |-> [m EXCEPT !.O = value]]
    ELSE IF key = <<"S">> THEN SetSlots(m, ParseSlots(Split(value, ":"), m.slots))
    ELSE [err |-> UnexpectedMetadataKey, val |-> m]

\* key, value = entry.split("=", maxsplit=1), then the chain
KeyValue(m, kv) ==
    IF Len(kv) # 2 THEN [err |-> ValueError, val |-> m]
    ELSE Dispatch(m, kv[1], kv[2])

\* one turn of the loop over raw_split
ParseEntry(m, entry) == KeyValue(m, Split1(entry, "="))

RECURSIVE ParseEntries(_, _)
NextEntry(e, raw_split) ==
    IF e.err # NoError THEN [err |-> e.err, val |-> None]
    ELSE ParseEntries(e.val, Tail(raw_split))

ParseEntries(m, raw_split) ==
    IF raw_split = <<>> THEN [err |-> NoError, val |-> m]
    ELSE NextEntry(ParseEntry(m, Head(raw_split)), raw_split)

\* the body of ReplayMetadata.parse once raw is read
ParseRaw(r) ==
    IF r.err # NoError THEN [err |-> r.err, val |-> None, pos |-> r.pos]
    ELSE [pos |-> r.pos] @@ ParseEntries(ReplayMetadata, NonEmpty(Split(r.val, ";")))

\* ReplayMetadata.parse(file) at cursor p
ReplayMetadata_parse(f, p) == ParseRaw(read_null_terminated_string(f, p))

(***************************************************************************)
(* Replay                                                                  *)
(***************************************************************************)
GENERALS == "GENERALS"
BFME == "BFME"
BFME2 == "BFME2"

\* Replay._parse_game_type(file) at cursor p
_parse_game_type(f, p) ==
    LET first  == Read(f, p, 6)
        q      == Tell(f, p, 6)
        second == Read(f, q, 6)
    IN  IF Decode(first).err # NoError
        THEN [err |-> Decode(first).err, val |-> None, pos |-> q]
        ELSE IF first = Bytes(<<"G", "E", "N", "R", "E", "P">>)
        THEN [err |-> NoError, val |-> GENERALS, pos |-> q]
        ELSE IF Decode(second).err # NoError
        THEN [err |-> Decode(second).err, val |-> None, pos |-> Tell(f, q, 6)]
        ELSE IF second = Bytes(<<"B", "F", "M", "E", "R", "E", "P", "L">>)
        THEN [err |-> NoError, val |-> BFME, pos |-> Tell(f, q, 6)]
        ELSE IF second = Bytes(<<"B", "F", "M", "E", "2", "R", "P", "L">>)
        THEN [err |-> NoError, val |-> BFME2, pos |-> Tell(f, q, 6)]
        ELSE [err |-> UnrecognizedReplayType, val |-> None, pos |-> Tell(f, q, 6)]

\* Replay._parse_timestamp(file): the datetime of the epoch second read
_parse_timestamp(f, p) == read_uint32(f, p)

\* the eight read_uint16 calls of ReplayTimestamp.parse, in order
RECURSIVE ReadUint16s(_, _, _, _)
ReadUint16s(f, p, n, acc) ==
    IF n = 0 THEN [err |-> NoError, val |-> acc, pos |-> p]
    ELSE LET r == read_uint16(f, p)
         IN  IF r.err # NoError THEN [err |-> r.err, val |-> None, pos |-> r.pos]
             ELSE ReadUint16s(f, r.pos, n - 1, Append(acc, r.val))

ReplayTimestamp_parse(f, p) ==
    LET r == ReadUint16s(f, p, 8, <<>>)
    IN  IF r.err # NoError THEN r
        ELSE [err |-> NoError, pos |-> r.pos,
              val |-> [year |-> r.val[1], month |-> r.val[2],
                       day_of_week |-> r.val[3], day |-> r.val[4],
                       hour |-> r.val[5], minute |-> r.val[6],
                       second |-> r.val[7], millisecond |-> r.val[8]]]

\* file.read(n): never raises
ReadBytes(f, p, n) == [err |-> NoError, val |-> Read(f, p, n), pos |-> Tell(f, p, n)]

Others == UNCHANGED <<file, given, raw, slot, todo, connection, failing>>

\* One statement of Replay._parse: at label `at` the call returned r; its value
\* becomes self.<attr> and control moves to `next`, or its exception leaves
\* _parse and Replay.__init__.
Statement(at, attr, r, next) ==
    /\ pc = at
    /\ pos' = r.pos
    /\ IF r.err # NoError
       THEN pc' = "raised" /\ error' = r.err /\ UNCHANGED replay
       ELSE /\ pc' = next
            /\ replay' = (attr :> r.val) @@ replay
            /\ UNCHANGED error
    /\ Others

ParseGameType ==
    LET r == _parse_game_type(file, pos)
    IN  Statement("game_type", "game_type",
            IF r.err = NoError /\ r.val # GENERALS
            THEN [r EXCEPT !.err = NotImplementedGameType]
            ELSE r,
            "start_date")

ParseStartDate ==
    Statement("start_date", "start_date", _parse_timestamp(file, pos), "end_date")

ParseEndDate ==
    Statement("end_date", "end_date", _parse_timestamp(file, pos), "num_timecodes")

ParseNumTimecodes ==
    Statement("num_timecodes", "num_timecodes", read_uint16(file, pos), "_zero")

ParseZero ==
    /\ pc = "_zero"
    /\ pos' = Tell(file, pos, 12)
    /\ pc' = "filename"
    /\ UNCHANGED <<replay, error>>
    /\ Others

ParseFilename ==
    Statement("filename", "filename",
              read_null_terminated_utf16_string(file, pos), "timestamp")

ParseTimestamp ==
    Statement("timestamp", "timestamp", ReplayTimestamp_parse(file, pos), "version")

ParseVersion ==
    Statement("version", "version",
              read_null_terminated_utf16_string(file, pos), "build_date")

ParseBuildDate ==
    Statement("build_date", "build_date",
              read_null_terminated_utf16_string(file, pos), "version_minor")

ParseVersionMinor ==
    Statement("version_minor", "version_minor", read_uint16(file, pos), "version_major")

ParseVersionMajor ==
    Statement("version_major", "version_major", read_uint16(file, pos), "unknown_hash")

ParseUnknownHash ==
    Statement("unknown_hash", "unknown_hash", ReadBytes(file, pos, 8), "metadata")

ParseMetadata ==
    Statement("metadata", "metadata", ReplayMetadata_parse(file, pos), "unknown1")

ParseUnknown1 ==
    Statement("unknown1", "unknown1", read_uint16(file, pos), "unknown2")

ParseUnknown2 ==
    Statement("unknown2", "unknown2", read_uint32(file, pos), "unknown3")

ParseUnknown3 ==
    Statement("unknown3", "unknown3", read_uint32(file, pos), "unknown4")

ParseUnknown4 ==
    Statement("unknown4", "unknown4", read_uint32(file, pos), "game_speed")

ParseGameSpeed ==
    Statement("game_speed", "game_speed", read_uint32(file, pos), "done")

(***************************************************************************)
(* The files Replay(path) is applied to                                    *)
(***************************************************************************)
\* struct.pack("<H", v), struct.pack("<I", v)
PackH(v) == <<v % 256, v \div 256>>
PackI(v) == <<v % 256, (v \div 256) % 256, (v \div 65536) % 256, v \div 16777216>>

RECURSIVE Concat(_)
Concat(seqs) == IF seqs = <<>> THEN <<>> ELSE Head(seqs) \o Concat(Tail(seqs))

\* a string of 16-bit units, little-endian, with its 00 00 terminator
Utf16Z(units) == Concat([i \in 1..Len(units) |-> PackH(units[i])]) \o <<0, 0>>

\* the header of a GENERALS replay after its tag, field after field
Header(rec) ==
    Concat(<<PackI(rec.start_date), PackI(rec.end_date), PackH(rec.num_timecodes),
             rec.reserved, Utf16Z(rec.filename),
             Concat([i \in 1..8 |-> PackH(rec.timestamp[i])]),
             Utf16Z(rec.version), Utf16Z(rec.build_date),
             PackH(rec.version_minor), PackH(rec.version_major),
             rec.unknown_hash, Bytes(rec.metadata), <<0>>,
             PackH(rec.unknown1), PackI(rec.unknown2), PackI(rec.unknown3),
             PackI(rec.unknown4), PackI(rec.game_speed)>>)

\* metadata blocks
MetaExample ==
    <<"U", "S", "=", "1", ";",
    "M", "C", "=", "f", "f", ";",
    "M", "S", "=", "1", "0", "0", ";",
    "S", "C", "=", "5", "0", "0", "0", ";",
    "S", "=", "H", "0", "x", "A", "B", ",", "1", ",", "1", ",", "1", ",", "0", ",", "1", ",", "0", ",", "0", ":", "X", ":">>
MetaMap ==
    <<"M", "=", "4", "2", "m", "y", "m", "a", "p", ".", "m", "a", "p", ";">>
MetaMapNoDigits ==
    <<"M", "=", "m", "y", "m", "a", "p", ".", "m", "a", "p">>
MetaUnknownKey ==
    <<"Z", "Z", "=", "1", ";">>
MetaUnknownKeyBetween ==
    <<"M", "S", "=", "1", "0", "0", ";",
    "Z", "Z", "=", "1", ";",
    "S", "C", "=", "5">>
MetaUnknownKeyAfterBadInt ==
    <<"M", "S", "=", "x", ";",
    "Z", "Z", "=", "1">>
MetaNoEquals ==
    <<"Z", "Z">>
MetaComputers ==
    <<"S", "=", "C", "E", ",", "2", ",", "3", ",", "4", ",", "0", ":", "X", ":", "C", "M", ",", "1", ",", "1", ",", "1", ",", "1", ":", "O", ":">>

Metadatas ==
    {<<>>, MetaExample, MetaMap, MetaMapNoDigits, MetaUnknownKey, MetaUnknownKeyBetween, MetaUnknownKeyAfterBadInt, MetaNoEquals, MetaComputers}

\* file names, as 16-bit units: "", "A", "A" U+0100, U+FEFF "A", U+FFFE "A",
\* U+1F600 (a surrogate pair), a high surrogate alone
Filenames ==
    {<<>>, <<65>>, <<65, 256>>, <<65279, 65>>, <<65534, 65>>, <<55357, 56832>>,
     <<55357>>}

BaseRecord ==
    [start_date |-> 16909060, end_date |-> 84281096, num_timecodes |-> 513,
     reserved |-> <<9, 0, 9, 0, 9, 0, 9, 0, 9, 0, 9, 0>>, filename |-> <<65>>,
     timestamp |-> <<2024, 3, 5, 15, 13, 45, 59, 999>>,
     version |-> <<86, 49>>, build_date |-> <<66>>,
     version_minor |-> 4, version_major |-> 1,
     unknown_hash |-> <<1, 0, 3, 4, 5, 6, 7, 8>>, metadata |-> MetaExample,
     unknown1 |-> 11, unknown2 |-> 12, unknown3 |-> 13, unknown4 |-> 14,
     game_speed |-> 30]

Records ==
    {[BaseRecord EXCEPT !.filename = n] : n \in Filenames}
    \cup {[BaseRecord EXCEPT !.metadata = m] : m \in Metadatas}

TagGenerals == Bytes(<<"G", "E", "N", "R", "E", "P">>)
TagBfme == Bytes(<<"B", "F", "M", "E", "R", "E", "P", "L">>)
TagBfme2 == Bytes(<<"B", "F", "M", "E", "2", "R", "P", "L">>)

\* the three known tags and an unknown one
Tags == {TagGenerals, TagBfme, TagBfme2, Bytes(<<"G", "E", "N", "R", "E", "Q">>)}

\* the number of bytes of the command stream kept after the header
MaxPad == 1

Pad == [i \in 1..MaxPad |-> 7]

\* the file of a tag and a record, cut after `cut` bytes
FileOf(tag, rec, cut) == Upto(Concat(<<tag, Header(rec), Pad>>), cut)

Unused == "unused"

NoConnection == [replays |-> <<>>, slots |-> <<>>, pending_replays |-> <<>>,
                 pending_slots |-> <<>>]

\* Replay(path): the file is opened at its first byte, no attribute is set
Init ==
    /\ \E tag \in Tags, rec \in Records :
          \E cut \in 0..Len(FileOf(tag, rec, Len(tag) + Len(Header(rec)) + MaxPad)) :
             /\ given = [tag |-> tag, rec |-> rec, cut |-> cut]
             /\ file = FileOf(tag, rec, cut)
    /\ pos = 0
    /\ pc = "game_type"
    /\ replay = <<>>
    /\ error = NoError
    /\ raw = Unused /\ slot = Unused
    /\ todo = <<>> /\ connection = NoConnection /\ failing = <<>>

Next ==
    \/ ParseGameType
    \/ ParseStartDate
    \/ ParseEndDate
    \/ ParseNumTimecodes
    \/ ParseZero
    \/ ParseFilename
    \/ ParseTimestamp
    \/ ParseVersion
    \/ ParseBuildDate
    \/ ParseVersionMinor
    \/ ParseVersionMajor
    \/ ParseUnknownHash
    \/ ParseMetadata
    \/ ParseUnknown1
    \/ ParseUnknown2
    \/ ParseUnknown3
    \/ ParseUnknown4
    \/ ParseGameSpeed

Spec == Init /\ [][Next]_vars

(***************************************************************************)
(* Properties of Replay(path)                                              *)
(***************************************************************************)
\* the offset at which the header of the given file ends
HeaderEnd == Len(given.tag) + Len(Header(given.rec))

\* the offset at which the metadata block (its terminator included) ends
MetadataEnd == HeaderEnd - 18

\* the file starts with the bytes t
StartsWith(t) == Len(file) >= Len(t) /\ Upto(file, Len(t)) = t

\* Replay(path) has returned or raised
Returned == pc = "done"
Raised == pc = "raised"

ValidUtf16(units) == CodePoints(units, <<>>).err = NoError

EntriesOf(chars) == NonEmpty(Split(chars, ";"))

ValidMetadata(chars) == ParseEntries(ReplayMetadata, EntriesOf(chars)).err = NoError

\* the given file is a whole GENERALS header whose strings and metadata are
\* well formed
ValidGenerals ==
    /\ given.tag = TagGenerals
    /\ given.cut >= HeaderEnd
    /\ ValidUtf16(given.rec.filename)
    /\ ValidUtf16(given.rec.version)
    /\ ValidUtf16(given.rec.build_date)
    /\ ValidMetadata(given.rec.metadata)

\* the Replay whose every attribute is the value the file holds at its place
Encoded(rec) ==
    [game_type |-> GENERALS, start_date |-> rec.start_date,
     end_date |-> rec.end_date, num_timecodes |-> rec.num_timecodes,
     filename |-> CodePoints(rec.filename, <<>>).val,
     timestamp |-> [year |-> rec.timestamp[1], month |-> rec.timestamp[2],
                    day_of_week |-> rec.timestamp[3], day |-> rec.timestamp[4],
                    hour |-> rec.timestamp[5], minute |-> rec.timestamp[6],
                    second |-> rec.timestamp[7], millisecond |-> rec.timestamp[8]],
     version |-> CodePoints(rec.version, <<>>).val,
     build_date |-> CodePoints(rec.build_date, <<>>).val,
     version_minor |-> rec.version_minor, version_major |-> rec.version_major,
     unknown_hash |-> rec.unknown_hash,
     metadata |-> ParseEntries(ReplayMetadata, EntriesOf(rec.metadata)).val,
     unknown1 |-> rec.unknown1, unknown2 |-> rec.unknown2,
     unknown3 |-> rec.unknown3, unknown4 |-> rec.unknown4,
     game_speed |-> rec.game_speed]

\* C1: a file whose tag is BFMEREPL or BFME2RPL fails with "parsing for game
\* type ... not implemented yet"; a file whose tag is none of GENREP, BFMEREPL,
\* BFME2RPL fails with "Unrecognized replay type"; only a file that starts with
\* GENREP gets past the tag.
C1_VariantTag ==
    pc # "game_type" =>
        /\ (StartsWith(TagBfme) \/ StartsWith(TagBfme2)) =>
               (Raised /\ error = NotImplementedGameType)
        /\ ~(StartsWith(TagGenerals) \/ StartsWith(TagBfme) \/ StartsWith(TagBfme2)) =>
               (Raised /\ error = UnrecognizedReplayType)
        /\ ~StartsWith(TagGenerals) => Raised

\* C2: a GENERALS file that ends before the end of its header is never
\* decoded: Replay(path) does not return, and where it stops it has raised.
C2_TruncationFails ==
    (given.tag = TagGenerals /\ given.cut < HeaderEnd) =>
        /\ ~Returned
        /\ Raised => error \in {StructError, UnicodeDecodeError, ValueError,
                               IndexError, InvalidSlotType, InvalidSlotDifficulty,
                               UnexpectedMetadataKey, UnrecognizedReplayType}

\* a file cut one byte before the end of the header: every field but the last
\* was read, and the read of game_speed raised
C2_Witness ==
    /\ given.tag = TagGenerals
    /\ given.cut = HeaderEnd - 1
    /\ Raised /\ error = StructError
    /\ "unknown4" \in DOMAIN replay

\* C3: a valid GENERALS file is decoded: Replay(path) returns, the cursor is
\* at the end of the header, and every attribute is the value encoded at its
\* place in the file.
C3_FieldsAsEncoded ==
    (ValidGenerals /\ (Returned \/ Raised)) =>
        /\ Returned
        /\ pos = HeaderEnd
        /\ replay = Encoded(given.rec)

\* the segments of a metadata block and their keys
KnownKeys ==
    {<<"U", "S">>, <<"M">>, <<"M", "C">>, <<"M", "S">>, <<"S", "D">>, <<"C">>,
     <<"S", "R">>, <<"S", "C">>, <<"O">>, <<"S">>}

KeyOf(entry) == Split1(entry, "=")[1]

\* some segment key=value has a key outside the known ones
HasUnknownKey(chars) ==
    \E i \in 1..Len(EntriesOf(chars)) :
        /\ Len(Split1(EntriesOf(chars)[i], "=")) = 2
        /\ KeyOf(EntriesOf(chars)[i]) \notin KnownKeys

\* every segment before a segment with an unknown key is parsed without an
\* exception
UnknownKeyComesFirst(chars) ==
    \E i \in 1..Len(EntriesOf(chars)) :
        /\ Len(Split1(EntriesOf(chars)[i], "=")) = 2
        /\ KeyOf(EntriesOf(chars)[i]) \notin KnownKeys
        /\ ParseEntries(ReplayMetadata, Upto(EntriesOf(chars), i - 1)).err = NoError

\* the given file holds a GENERALS header up to the end of a metadata block
\* one of whose segments has an unknown key
HoldsUnknownKey ==
    /\ given.tag = TagGenerals
    /\ given.cut >= MetadataEnd
    /\ ValidUtf16(given.rec.filename)
    /\ HasUnknownKey(given.rec.metadata)

\* C8 as stated: whatever the other segments are, a segment with an unknown
\* key makes Replay(path) raise "Unexpected replay metadata key", and no
\* Replay is returned.
C8_UnknownKeyAsStated ==
    (HoldsUnknownKey /\ (Returned \/ Raised)) =>
        (Raised /\ error = UnexpectedMetadataKey)

\* C8 as amended: a segment with an unknown key makes Replay(path) raise in
\* ReplayMetadata.parse, and no Replay is returned; the exception is
\* "Unexpected replay metadata key" when every segment before that one is
\* parsed without an exception.
C8_UnknownKeyFails ==
    HoldsUnknownKey =>
        /\ ~Returned
        /\ "metadata" \notin DOMAIN replay
        /\ Raised => pos = MetadataEnd
        /\ (Raised /\ UnknownKeyComesFirst(given.rec.metadata)) =>
               error = UnexpectedMetadataKey

\* the unknown key between two well-formed segments has raised
C8_Witness ==
    /\ given.tag = TagGenerals
    /\ given.cut >= HeaderEnd
    /\ given.rec.metadata = MetaUnknownKeyBetween
    /\ Raised /\ error = UnexpectedMetadataKey
    /\ "unknown_hash" \in DOMAIN replay

(***************************************************************************)
(* ReplaySlot.parse(raw) on its own                                        *)
(***************************************************************************)
\* the most fields that follow the first field of a token
MaxFields == 7

FieldsA == <<<<"2">>, <<"3">>, <<"4">>, <<"0">>, <<"5">>, <<"6">>, <<"7">>, <<"8">>, <<"9">>>>
FieldsB == <<<<"1">>, <<"1">>, <<"1">>, <<"0">>, <<"1">>, <<"0">>, <<"0">>, <<"1">>, <<"1">>>>
FieldsC == <<<<"a", "b">>, <<"1">>, <<"z">>, <<"0">>, <<"1">>, <<"0">>, <<"1">>, <<"1">>, <<"1">>>>
FieldsD == <<<<"-", "1">>, <<"-", "1">>, <<"-", "1">>, <<"-", "1">>, <<"-", "1">>, <<"-", "1">>, <<"-", "1">>, <<"-", "1">>, <<"-", "1">>>>

\* the first character of a token, and what follows it in the first field
Markers == {"H", "C", "X", "O", "Q"}

FirstFields ==
    {<<>>, <<"E">>, <<"M">>, <<"H">>, <<"Z">>, <<",", "E">>, <<"a", "b">>,
     <<"0", "x", "A", "B">>}

Token(marker, first, fields) ==
    <<marker>> \o first \o Concat([i \in 1..Len(fields) |-> <<",">> \o fields[i]])

Tokens ==
    {Token(marker, first, Upto(fields, n)) :
        marker \in Markers, first \in FirstFields,
        fields \in {FieldsA, FieldsB, FieldsC, FieldsD}, n \in 0..MaxFields}

InitSlot ==
    /\ raw \in Tokens
    /\ slot = Unused
    /\ pc = "slot"
    /\ file = <<>> /\ pos = 0 /\ replay = <<>> /\ error = NoError
    /\ given = Unused
    /\ todo = <<>> /\ connection = NoConnection /\ failing = <<>>

\* slot = ReplaySlot.parse(raw)
ParseSlot ==
    /\ pc = "slot"
    /\ slot' = ReplaySlot_parse(raw)
    /\ pc' = "done"
    /\ UNCHANGED <<file, pos, replay, error, given, raw, todo, connection, failing>>

SpecSlot == InitSlot /\ [][ParseSlot]_vars

TokenCommaE == Token("C", <<",", "E">>, Upto(FieldsA, 4))
TokenCE == Token("C", <<"E">>, Upto(FieldsA, 4))

ComputerEasy2340 ==
    [slot_type |-> COMPUTER, human_name |-> <<>>, user_id |-> 0,
     computer_difficulty |-> EASY, color |-> 2, faction |-> 3,
     star_position |-> 4, team |-> 0]

\* C5 as stated: ReplaySlot.parse("C,E,2,3,4,0") returns a COMPUTER slot of
\* difficulty EASY with color 2, faction 3, start position 4 and team 0.
C5_CommaEAsStated ==
    (pc = "done" /\ raw = TokenCommaE) =>
        (slot.err = NoError /\ slot.val = ComputerEasy2340)

\* C5 as amended: ReplaySlot.parse("C,E,2,3,4,0") raises "invalid replay slot
\* difficulty", the character at offset 1 being ","; it is "CE,2,3,4,0" that
\* yields the COMPUTER slot of difficulty EASY with color 2, faction 3, start
\* position 4 and team 0.
C5_ComputerToken ==
    pc = "done" =>
        /\ raw = TokenCommaE => slot.err = InvalidSlotDifficulty
        /\ raw = TokenCE => (slot.err = NoError /\ slot.val = ComputerEasy2340)

C5_Witness == pc = "done" /\ raw = TokenCE /\ slot.err = NoError

\* C7: the character at offset 1 of a COMPUTER token gives the difficulty: E
\* is EASY, M is MEDIUM, H is HARD, and any other character makes
\* ReplaySlot.parse raise "invalid replay slot difficulty".
C7_DifficultyThreeWay ==
    (pc = "done" /\ Len(raw) >= 2 /\ At(raw, 0) = "C") =>
        /\ At(raw, 1) \notin {"E", "M", "H"} => slot.err = InvalidSlotDifficulty
        /\ At(raw, 1) \in {"E", "M", "H"} => slot.err # InvalidSlotDifficulty
        /\ slot.err = NoError =>
               slot.val.computer_difficulty =
                   CASE At(raw, 1) = "E" -> EASY
                     [] At(raw, 1) = "M" -> MEDIUM
                     [] At(raw, 1) = "H" -> HARD

(***************************************************************************)
(* ReplayMetadata.parse(file) on its own                                   *)
(***************************************************************************)
\* the most segments of a generated metadata block
MaxEntries == 2

Segments ==
    {<<"U", "S", "=", "1">>,
     <<"M", "=", "4", "2", "m", "y", "m", "a", "p", ".", "m", "a", "p">>,
     <<"M", "=", "m", "y", "m", "a", "p", ".", "m", "a", "p">>,
     <<"M", "=">>,
     <<"M", "C", "=", "f", "f">>,
     <<"M", "S", "=", "1", "0", "0">>,
     <<"M", "S", "=", "x">>,
     <<"S", "C", "=", "5", "0", "0", "0">>,
     <<"O", "=", "a", "b">>,
     <<"Z", "Z", "=", "1">>,
     <<"Z", "Z">>,
     <<"S", "=", "H", "0", "x", "A", "B", ",", "1", ",", "1", ",", "1", ",", "0", ",", "1", ",", "0", ",", "0", ":", "X", ":">>,
     <<"S", "=", "C", "E", ",", "2", ",", "3", ",", "4", ",", "0", ":", "C", "M", ",", "1", ",", "1", ",", "1", ",", "1">>,
     <<"S", "=", ":", "X", ":", ":", "O">>,
     <<"S", "=", "Q", ",", "1">>,
     <<"S", "D", "=", "1">>,
     <<"C", "=", "2">>,
     <<"S", "R", "=", "3">>}

\* the sequences of at most n segments
RECURSIVE SegmentLists(_)
SegmentLists(n) ==
    IF n = 0 THEN {<<>>}
    ELSE SegmentLists(n - 1)
         \cup {Append(l, e) : l \in SegmentLists(n - 1), e \in Segments}

\* the block of a list of segments, a ";" after each
Block(segments) == Concat([i \in 1..Len(segments) |-> segments[i] \o <<";">>])

Blocks == {Block(l) : l \in SegmentLists(MaxEntries)} \cup Metadatas

\* self.metadata = ReplayMetadata.parse(file), the file holding the block, its
\* terminator and what follows
InitMetadata ==
    /\ given \in Blocks
    /\ file = Bytes(given) \o <<0>> \o Pad
    /\ pos = 0
    /\ pc = "metadata"
    /\ replay = <<>>
    /\ error = NoError
    /\ raw = Unused /\ slot = Unused
    /\ todo = <<>> /\ connection = NoConnection /\ failing = <<>>

SpecMetadata == InitMetadata /\ [][ParseMetadata]_vars

\* ReplayMetadata.parse has returned
Parsed == pc = "unknown1"

\* C4 as stated: the example block yields map CRC 255, map size 100, starting
\* credits 5000 and two slots: a HUMAN slot with user id 0xAB, color 1,
\* faction 1, start position 0 and team 1, then an EMPTY slot.
C4_ExampleAsStated ==
    (given = MetaExample /\ pc # "metadata") =>
        /\ Parsed
        /\ replay.metadata.map_crc = 255
        /\ replay.metadata.map_size = 100
        /\ replay.metadata.starting_credits = 5000
        /\ Len(replay.metadata.slots) = 2
        /\ replay.metadata.slots[1].slot_type = HUMAN
        /\ replay.metadata.slots[1].user_id = 171
        /\ replay.metadata.slots[1].color = 1
        /\ replay.metadata.slots[1].faction = 1
        /\ replay.metadata.slots[1].star_position = 0
        /\ replay.metadata.slots[1].team = 1
        /\ replay.metadata.slots[2].slot_type = EMPTY

\* C4 as amended: the example block yields map CRC 255, map size 100,
\* starting credits 5000 and two slots: a HUMAN slot with name "0xAB", user id
\* 1, color 0, faction 1, start position 0 and team 0, then an EMPTY slot.
C4_Example ==
    (given = MetaExample /\ pc # "metadata") =>
        /\ Parsed
        /\ replay.metadata.map_crc = 255
        /\ replay.metadata.map_size = 100
        /\ replay.metadata.starting_credits = 5000
        /\ replay.metadata.slots =
              <<[slot_type |-> HUMAN, human_name |-> <<"0", "x", "A", "B">>,
                 user_id |-> 1, computer_difficulty |-> None, color |-> 0,
                 faction |-> 1, star_position |-> 0, team |-> 0],
                ReplaySlot(EMPTY)>>

C4_Witness == given = MetaExample /\ Parsed /\ Len(replay.metadata.slots) = 2

\* the blocks that hold the key M alone
IsMapfileBlock(chars) ==
    /\ Len(EntriesOf(chars)) = 1
    /\ Len(Split1(EntriesOf(chars)[1], "=")) = 2
    /\ KeyOf(EntriesOf(chars)[1]) = <<"M">>

MapfileValue(chars) == Split1(EntriesOf(chars)[1], "=")[2]

\* the leading decimal digits of a value
RECURSIVE LeadingDigits(_)
LeadingDigits(value) ==
    IF value # <<>> /\ Head(value) \in {"0", "1", "2", "3", "4", "5", "6", "7", "8", "9"}
    THEN <<Head(value)>> \o LeadingDigits(Tail(value))
    ELSE <<>>

\* C6: the value of the key M is decoded into the integer its leading decimal
\* digits denote (0 when it has none) and the rest of the value as the path;
\* "42mymap.map" gives 42 and "mymap.map".
C6_MapfileKey ==
    (IsMapfileBlock(given) /\ pc # "metadata") =>
        /\ Parsed
        /\ replay.metadata.mapfile_unknown_int =
              DigitsValue(LeadingDigits(MapfileValue(given)), 10, 0)
        /\ replay.metadata.mapfile =
              From(MapfileValue(given), Len(LeadingDigits(MapfileValue(given))))

\* the non-empty ":"-separated tokens of the S values of a block, in the order
\* of the text
RECURSIVE SlotTokens(_)
SlotTokens(entries) ==
    IF entries = <<>> THEN <<>>
    ELSE (IF Len(Split1(Head(entries), "=")) = 2 /\ KeyOf(Head(entries)) = <<"S">>
          THEN NonEmpty(Split(Split1(Head(entries), "=")[2], ":"))
          ELSE <<>>) \o SlotTokens(Tail(entries))

\* C9: once ReplayMetadata.parse has returned, the slots are the slots of the
\* non-empty tokens of the S values, one for one and in the order of the text.
C9_SlotOrder ==
    Parsed =>
        /\ Len(replay.metadata.slots) = Len(SlotTokens(EntriesOf(given)))
        /\ \A i \in 1..Len(replay.metadata.slots) :
              /\ ReplaySlot_parse(SlotTokens(EntriesOf(given))[i]).err = NoError
              /\ replay.metadata.slots[i] =
                    ReplaySlot_parse(SlotTokens(EntriesOf(given))[i]).val
              /\ replay.metadata.slots[i].slot_type =
                    CASE SlotTokens(EntriesOf(given))[i][1] = "H" -> HUMAN
                      [] SlotTokens(EntriesOf(given))[i][1] = "C" -> COMPUTER
                      [] OTHER -> EMPTY

\* two S values, empty tokens among theirs, have given four slots
C9_Witness ==
    /\ Parsed
    /\ Len(EntriesOf(given)) = 2
    /\ Len(replay.metadata.slots) = 4
    /\ replay.metadata.slots[1].slot_type = EMPTY
    /\ replay.metadata.slots[3].slot_type = COMPUTER

(***************************************************************************)
(* The batch driver and ReplayDatabase                                     *)
(***************************************************************************)
\* the most files under data/zh
MaxFiles == 2

\* The files of the driver, each given by its metadata block (the rest of the
\* header is that of BaseRecord): a human and an empty slot; two computers
\* between empty slots; an unknown key; no slot at all.
DriverBlocks == {MetaExample, MetaComputers, MetaUnknownKey, <<>>}

\* the lists of at most n files
RECURSIVE FileLists(_)
FileLists(n) ==
    IF n = 0 THEN {<<>>}
    ELSE FileLists(n - 1)
         \cup {Append(l, b) : l \in FileLists(n - 1), b \in DriverBlocks}

\* Replay(sample_path) for the file whose metadata block is `block`
Replay(block) == ParseEntries(ReplayMetadata, EntriesOf(block))

\* the path the loop is at: its place in the list, which names it
SamplePath == Len(given) - Len(todo) + 1

\* the row of the INSERT INTO replays; id is the next rowid
ReplayRow(c, path, r) ==
    [id |-> Len(c.replays) + Len(c.pending_replays) + 1, filename |-> path,
     mapfile |-> r.mapfile, starting_credits |-> r.starting_credits]

\* the row of the INSERT INTO slots
SlotRow(replay_id, s) ==
    [replay_id |-> replay_id, type |-> SlotTypeValue(s.slot_type),
     human_name |-> s.human_name, user_id |-> s.user_id,
     computer_difficulty |->
         IF s.computer_difficulty # None THEN
             CASE s.computer_difficulty = EASY -> 1
               [] s.computer_difficulty = MEDIUM -> 2
               [] s.computer_difficulty = HARD -> 3
         ELSE 0,
     color |-> s.color, faction |-> s.faction,
     star_position |-> s.star_position, team |-> s.team]

\* the slots add_replay does not skip
Stored(slots) == SelectSeq(slots, LAMBDA s : SlotTypeValue(s.slot_type) # 0)

SlotRows(replay_id, slots) ==
    [i \in 1..Len(Stored(slots)) |-> SlotRow(replay_id, Stored(slots)[i])]

InitDriver ==
    /\ given \in FileLists(MaxFiles) \ {<<>>}
    /\ todo = given
    /\ pc = "for"
    /\ replay = None
    /\ connection = NoConnection
    /\ failing = <<>>
    /\ file = <<>> /\ pos = 0 /\ error = NoError
    /\ raw = Unused /\ slot = Unused

\* replay = Replay(sample_path); an exception is caught and logged
NewReplay ==
    /\ pc = "for"
    /\ todo # <<>>
    /\ IF Replay(Head(todo)).err # NoError
       THEN /\ failing' = Append(failing, SamplePath)
            /\ pc' = "commit"
            /\ UNCHANGED replay
       ELSE /\ replay' = Replay(Head(todo)).val
            /\ pc' = "add_replay"
            /\ UNCHANGED failing
    /\ UNCHANGED <<file, pos, error, given, raw, slot, todo, connection>>

\* db.add_replay(replay): connection.execute is called once for the replay and
\* once for each slot that is not EMPTY.  A call raises when sqlite3 cannot
\* bind a value (OverflowError for an int outside 64 bits; int() puts no
\* bound on user_id, color, faction, star_position, team) or cannot write;
\* `executed` is the number of calls that returned before one raised.  The
\* driver catches the exception and logs the path.
AddReplay ==
    /\ pc = "add_replay"
    /\ \E executed \in 0..(1 + Len(Stored(replay.slots))) :
          /\ connection' =
                IF executed = 0 THEN connection
                ELSE [connection EXCEPT
                        !.pending_replays =
                            Append(@, ReplayRow(connection, SamplePath, replay)),
                        !.pending_slots =
                            @ \o Upto(SlotRows(ReplayRow(connection, SamplePath,
                                                         replay).id, replay.slots),
                                      executed - 1)]
          /\ failing' =
                IF executed < 1 + Len(Stored(replay.slots))
                THEN Append(failing, SamplePath) ELSE failing
    /\ pc' = "commit"
    /\ UNCHANGED <<file, pos, error, given, raw, slot, todo, replay>>

\* db.connection.commit(), and on to the next path
Commit ==
    /\ pc = "commit"
    /\ connection' =
          [replays |-> connection.replays \o connection.pending_replays,
           slots |-> connection.slots \o connection.pending_slots,
           pending_replays |-> <<>>, pending_slots |-> <<>>]
    /\ todo' = Tail(todo)
    /\ pc' = "for"
    /\ UNCHANGED <<file, pos, error, given, raw, slot, replay, failing>>

NextDriver ==
    \/ NewReplay
    \/ AddReplay
    \/ Commit

SpecDriver == InitDriver /\ [][NextDriver]_vars

\* the committed rows of the slots table that belong to a replay row
SlotsOf(id) == SelectSeq(connection.slots, LAMBDA row : row.replay_id = id)

\* C10: every committed row of replays comes with one committed row of slots
\* for each slot of that replay that is not EMPTY, and a file whose decoding
\* or storing raised has no committed row: a file is stored whole or not at
\* all.
C10_WholeOrNothing ==
    \A i \in 1..Len(connection.replays) :
        /\ connection.replays[i].filename \notin {failing[k] : k \in 1..Len(failing)}
        /\ SlotsOf(connection.replays[i].id) =
              SlotRows(connection.replays[i].id,
                       Replay(given[connection.replays[i].filename]).val.slots)

====
